---- MODULE Spec2Model ----
(***************************************************************************)
(* The CSS selector builder of src/src/06-objects-tasks.js: the class     *)
(* MyCssSelector and the facade cssSelectorBuilder.                        *)
(*                                                                         *)
(* A JavaScript string is modelled as the sequence of its characters, so   *)
(* that concatenation, length and trim are computed and not assumed.      *)
(* The heap is the sequence of the MyCssSelector objects created so far;   *)
(* an object reference is its index in the heap.                           *)
(*                                                                         *)
(* rect is the Rectangle object of the same file.                          *)
(***************************************************************************)
EXTENDS Integers, Sequences, FiniteSets, TLC

VARIABLES heap, log, ret, rect

vars == <<heap, log, ret, rect>>

(***************************************************************************)
(* Bounds of the model and the inputs the calls draw from.                 *)
(***************************************************************************)
MaxCalls == 6
MaxNodes == 3
MaxShared == 2
MaxReturns == 3
MaxLogged == 4
MaxDim == 2

Values == { << >>, <<"a">> }
TreeValues == { << >>, <<" ">> }
Combinators == { <<"+">>, <<" ">> }
SharedCombinators == { <<"+">> }

(***************************************************************************)
(* JavaScript values.                                                      *)
(***************************************************************************)
\* A field never assigned. No string equals it: a string is a sequence of
\* single characters.
Undefined == <<"undefined">>

\* this[item] && this[item].length : a non-empty string or a non-empty array
HasLength(x) == x # Undefined /\ Len(x) > 0

\* the truthiness of a field that is undefined or a string
Truthy(x) == x # Undefined /\ x # << >>

Whitespace == {" "}

RECURSIVE TrimStart(_)
TrimStart(s) ==
  IF s # << >> /\ Head(s) \in Whitespace THEN TrimStart(Tail(s)) ELSE s

RECURSIVE TrimEnd(_)
TrimEnd(s) ==
  IF s # << >> /\ s[Len(s)] \in Whitespace
  THEN TrimEnd(SubSeq(s, 1, Len(s) - 1))
  ELSE s

Trim(s) == TrimEnd(TrimStart(s))

\* the two messages of the Error objects the methods throw
NoError == "none"
OrderError == "Selector parts should be arranged in the following order: element, id, class, attribute, pseudo-class, pseudo-element"
DuplicateError == "/Element, id and pseudo-element should not occur more then one time inside the selector/"

(***************************************************************************)
(* class MyCssSelector                                                     *)
(***************************************************************************)
order == <<"myElement", "myId", "myClasses", "myAttr", "myPseudoClasses", "myPseudoElement">>

\* the object the constructor leaves
NewSelector ==
  [ myElement       |-> Undefined,
    myId            |-> Undefined,
    myClasses       |-> << >>,
    myAttr          |-> Undefined,
    myPseudoClasses |-> << >>,
    myPseudoElement |-> Undefined,
    subBuilders     |-> << >> ]

\* order.indexOf(name), counted from 1
IndexOf(name) == CHOOSE i \in DOMAIN order : order[i] = name

\* checkAfterElemsExist taking a string kind as set once it was assigned:
\* this[item] !== undefined in place of this[item] && this[item].length
checkAfterElemsAssigned(self, name) ==
  LET idx == IndexOf(name)
      arr == SubSeq(order, idx + 1, Len(order))
  IN  \E i \in DOMAIN arr :
        IF arr[i] \in {"myClasses", "myPseudoClasses"}
        THEN Len(self[arr[i]]) > 0
        ELSE self[arr[i]] # Undefined

\* checkAfterElemsExist looking at the next kind only: slice(idx + 1, idx + 2)
checkNextElemExists(self, name) ==
  LET idx == IndexOf(name)
      arr == SubSeq(order, idx + 1, IF idx < Len(order) THEN idx + 1 ELSE idx)
  IN  \E i \in DOMAIN arr : HasLength(self[arr[i]])

\* TRUE when checkAfterElemsExist(name) throws on the object self
checkAfterElemsExist(self, name) ==
  LET idx == IndexOf(name)
      arr == SubSeq(order, idx + 1, Len(order))
  IN  \E i \in DOMAIN arr : HasLength(self[arr[i]])

\* The result of a method: the object as the call leaves it and the error
\* thrown (NoError when the method returns this).
Returns(self) == [self |-> self, err |-> NoError]
Throws(self, e) == [self |-> self, err |-> e]

\* element with the assignment moved above the duplicate check
elementAssignFirst(self, elem) ==
  IF checkAfterElemsExist(self, "myElement") THEN Throws(self, OrderError)
  ELSE IF Truthy(self.myElement)
       THEN Throws([self EXCEPT !.myElement = elem], DuplicateError)
       ELSE Returns([self EXCEPT !.myElement = elem])

element(self, elem) ==
  IF checkAfterElemsExist(self, "myElement") THEN Throws(self, OrderError)
  ELSE IF Truthy(self.myElement) THEN Throws(self, DuplicateError)
  ELSE Returns([self EXCEPT !.myElement = elem])

getElement(self) == IF Truthy(self.myElement) THEN self.myElement ELSE << >>

\* id without its duplicate check
idOverwrite(self, val) ==
  IF checkAfterElemsExist(self, "myId") THEN Throws(self, OrderError)
  ELSE Returns([self EXCEPT !.myId = val])

id(self, val) ==
  IF checkAfterElemsExist(self, "myId") THEN Throws(self, OrderError)
  ELSE IF Truthy(self.myId) THEN Throws(self, DuplicateError)
  ELSE Returns([self EXCEPT !.myId = val])

getId(self) == IF Truthy(self.myId) THEN <<"#">> \o self.myId ELSE << >>

\* attr keeping the first attribute stored
attrOnce(self, val) ==
  IF checkAfterElemsExist(self, "myAttr") THEN Throws(self, OrderError)
  ELSE IF Truthy(self.myAttr) THEN Returns(self)
  ELSE Returns([self EXCEPT !.myAttr = val])

attr(self, val) ==
  IF checkAfterElemsExist(self, "myAttr") THEN Throws(self, OrderError)
  ELSE Returns([self EXCEPT !.myAttr = val])

getAttr(self) ==
  IF Truthy(self.myAttr) THEN <<"[">> \o self.myAttr \o <<"]">> ELSE << >>

\* pseudoClass with concat, which leaves the array as it was, in place of push
pseudoClassConcat(self, val) ==
  IF checkAfterElemsExist(self, "myPseudoClasses") THEN Throws(self, OrderError)
  ELSE Returns(self)

pseudoClass(self, val) ==
  IF checkAfterElemsExist(self, "myPseudoClasses") THEN Throws(self, OrderError)
  ELSE Returns([self EXCEPT !.myPseudoClasses = Append(@, val)])

RECURSIVE ReduceJoin(_, _, _)
\* arr.reduce((acc, cl) => `${acc}${sep}${cl}`, acc)
ReduceJoin(arr, sep, acc) ==
  IF arr = << >> THEN acc
  ELSE ReduceJoin(Tail(arr), sep, acc \o sep \o Head(arr))

getPseudoClass(self) == ReduceJoin(self.myPseudoClasses, <<":">>, << >>)

\* pseudoElement without its duplicate check
pseudoElementOverwrite(self, val) ==
  Returns([self EXCEPT !.myPseudoElement = val])

pseudoElement(self, val) ==
  IF Truthy(self.myPseudoElement) THEN Throws(self, DuplicateError)
  ELSE Returns([self EXCEPT !.myPseudoElement = val])

getPseudoElement(self) ==
  IF Truthy(self.myPseudoElement)
  THEN <<":", ":">> \o self.myPseudoElement
  ELSE << >>

\* class with unshift in place of push
classUnshift(self, val) ==
  IF checkAfterElemsExist(self, "myClasses") THEN Throws(self, OrderError)
  ELSE Returns([self EXCEPT !.myClasses = <<val>> \o @])

class(self, val) ==
  IF checkAfterElemsExist(self, "myClasses") THEN Throws(self, OrderError)
  ELSE Returns([self EXCEPT !.myClasses = Append(@, val)])

getClass(self) == ReduceJoin(self.myClasses, <<".">>, << >>)

\* An element of subBuilders: a MyCssSelector (sel > 0, its reference) or a
\* string (sel = 0).
Selector(n) == [sel |-> n, str |-> << >>]
String(s) == [sel |-> 0, str |-> s]

\* What stringify() gives: a string, or the RangeError of a recursion that
\* does not end.
Text(s) == [thrown |-> FALSE, text |-> s]
RangeError == [thrown |-> TRUE, text |-> << >>]

RECURSIVE stringify(_, _, _)
RECURSIVE ReduceSubBuilders(_, _, _, _)
RECURSIVE ReduceSubBuildersToString(_, _, _, _)

\* stringify with trimEnd() in place of trim()
stringifyTrimEnd(h, n, depth) ==
  LET self == h[n] IN
  IF Len(self.subBuilders) > 0
  THEN IF depth = 0 THEN RangeError
       ELSE LET result == ReduceSubBuilders(h, self.subBuilders, << >>, depth)
            IN  IF result.thrown THEN RangeError ELSE Text(TrimEnd(result.text))
  ELSE Text(getElement(self) \o getId(self) \o getClass(self) \o getAttr(self)
              \o getPseudoClass(self) \o getPseudoElement(self))

\* stringify returning the joined text as it is, without trim()
stringifyUntrimmed(h, n, depth) ==
  LET self == h[n] IN
  IF Len(self.subBuilders) > 0
  THEN IF depth = 0 THEN RangeError
       ELSE ReduceSubBuilders(h, self.subBuilders, << >>, depth)
  ELSE Text(getElement(self) \o getId(self) \o getClass(self) \o getAttr(self)
              \o getPseudoClass(self) \o getPseudoElement(self))

\* the reduce calling toString() on every item, selectors included
ReduceSubBuildersToString(h, items, acc, depth) ==
  IF items = << >> THEN Text(acc)
  ELSE LET item == Head(items)
           res  == IF item.sel # 0
                   THEN Text(<<"[", "o", "b", "j", "e", "c", "t", " ",
                               "O", "b", "j", "e", "c", "t", "]">>)
                   ELSE Text(item.str)
       IN  ReduceSubBuildersToString(h, Tail(items),
             (IF Len(acc) > 0 THEN <<" ">> \o acc ELSE << >>)
                \o <<" ">> \o res.text,
             depth)

\* this.subBuilders.reduce((acc, item) => ..., '') over the items still to visit
ReduceSubBuilders(h, items, acc, depth) ==
  IF items = << >> THEN Text(acc)
  ELSE LET item == Head(items)
           res  == IF item.sel # 0
                   THEN stringify(h, item.sel, depth - 1)
                   ELSE Text(item.str)
       IN  IF res.thrown THEN RangeError
           ELSE ReduceSubBuilders(h, Tail(items),
                  (IF Len(acc) > 0 THEN <<" ">> \o acc ELSE << >>)
                     \o <<" ">> \o res.text,
                  depth)

\* h[n].stringify(). depth is the number of nested calls left before a node
\* must repeat on the call path: at 0 the recursion is in a cycle of
\* subBuilders and never ends.
stringify(h, n, depth) ==
  LET self == h[n] IN
  IF Len(self.subBuilders) > 0
  THEN IF depth = 0 THEN RangeError
       ELSE LET result == ReduceSubBuilders(h, self.subBuilders, << >>, depth)
            IN  IF result.thrown THEN RangeError ELSE Text(Trim(result.text))
  ELSE Text(getElement(self) \o getId(self) \o getClass(self) \o getAttr(self)
              \o getPseudoClass(self) \o getPseudoElement(self))

Stringify(h, n) == stringify(h, n, Len(h))

\* combine keeping the strings its operands render to when it is called
combineSnapshot(self, selector1, combinator, selector2) ==
  Returns([self EXCEPT !.subBuilders =
             @ \o <<String(Stringify(heap, selector1).text), String(combinator),
                    String(Stringify(heap, selector2).text)>>])

combine(self, selector1, combinator, selector2) ==
  Returns([self EXCEPT !.subBuilders =
             @ \o <<Selector(selector1), String(combinator), Selector(selector2)>>])

(***************************************************************************)
(* The calls. ret is what the last call did: whether it went through the   *)
(* facade cssSelectorBuilder or was made on an object, the method, the     *)
(* object it ran on, the error thrown, the reference returned (0 when it   *)
(* threw or returned a string) and the string returned. log[n] lists the   *)
(* calls on object n that returned, in order.                              *)
(***************************************************************************)
Ret(via, op, n, e, out) ==
  [ via    |-> via,
    op     |-> op,
    self   |-> n,
    err    |-> e,
    node   |-> IF e = NoError /\ op # "stringify" THEN n ELSE 0,
    thrown |-> out.thrown,
    text   |-> out.text ]

Entry(op, val) == [op |-> op, val |-> val]

\* a method of object n of heap h was called and gave r
Called(via, h, lg, n, op, val, r) ==
  /\ heap' = [h EXCEPT ![n] = r.self]
  /\ log' = IF r.err = NoError
            THEN [lg EXCEPT ![n] = Append(@, Entry(op, val))]
            ELSE lg
  /\ ret' = Ret(via, op, n, r.err, Text(<< >>))
  /\ UNCHANGED rect

\* No Rectangle constructed yet.
NoRectangle ==
  [width |-> 0, height |-> 0, args |-> <<0, 0>>, op |-> "none", result |-> 0]

Init ==
  /\ heap = << >>
  /\ log = << >>
  /\ ret = Ret("none", "init", 0, NoError, Text(<< >>))
  /\ rect = NoRectangle

\* new MyCssSelector(): the heap and the log with the new object
Allocated == Append(heap, NewSelector)
\* the facade handing out the object it made last
FreshReused == IF heap = << >> THEN 1 ELSE Len(heap)

Fresh == Len(heap) + 1

FacadeElement(val) ==
  Called("facade", Allocated, Append(log, << >>), Fresh, "element", val,
         element(Allocated[Fresh], val))

FacadeId(val) ==
  Called("facade", Allocated, Append(log, << >>), Fresh, "id", val,
         id(Allocated[Fresh], val))

FacadeClass(val) ==
  Called("facade", Allocated, Append(log, << >>), Fresh, "class", val,
         class(Allocated[Fresh], val))

FacadeAttr(val) ==
  Called("facade", Allocated, Append(log, << >>), Fresh, "attr", val,
         attr(Allocated[Fresh], val))

FacadePseudoClass(val) ==
  Called("facade", Allocated, Append(log, << >>), Fresh, "pseudoClass", val,
         pseudoClass(Allocated[Fresh], val))

FacadePseudoElement(val) ==
  Called("facade", Allocated, Append(log, << >>), Fresh, "pseudoElement", val,
         pseudoElement(Allocated[Fresh], val))

\* what the log keeps of a combine call: its three arguments
Operands(selector1, combinator, selector2) ==
  [left |-> selector1, combinator |-> combinator, right |-> selector2]

FacadeCombine(selector1, combinator, selector2) ==
  Called("facade", Allocated, Append(log, << >>), Fresh, "combine",
         Operands(selector1, combinator, selector2),
         combine(Allocated[Fresh], selector1, combinator, selector2))

FluentElement(n, val) == Called("object", heap, log, n, "element", val, element(heap[n], val))

FluentId(n, val) == Called("object", heap, log, n, "id", val, id(heap[n], val))

FluentClass(n, val) == Called("object", heap, log, n, "class", val, class(heap[n], val))

FluentAttr(n, val) == Called("object", heap, log, n, "attr", val, attr(heap[n], val))

FluentPseudoClass(n, val) ==
  Called("object", heap, log, n, "pseudoClass", val, pseudoClass(heap[n], val))

FluentPseudoElement(n, val) ==
  Called("object", heap, log, n, "pseudoElement", val, pseudoElement(heap[n], val))

FluentCombine(n, selector1, combinator, selector2) ==
  Called("object", heap, log, n, "combine",
         Operands(selector1, combinator, selector2),
         combine(heap[n], selector1, combinator, selector2))

\* stringify taking the items out of subBuilders as it renders them
CallStringifyConsuming(n) ==
  /\ ret' = Ret("object", "stringify", n, NoError, Stringify(heap, n))
  /\ heap' = [heap EXCEPT ![n].subBuilders = << >>]
  /\ UNCHANGED <<log, rect>>

CallStringify(n) ==
  /\ ret' = Ret("object", "stringify", n, NoError, Stringify(heap, n))
  /\ UNCHANGED <<heap, log, rect>>

\* The same call, entered in the log of the object with the string it
\* returned.
CallStringifyLogged(n) ==
  /\ ret' = Ret("object", "stringify", n, NoError, Stringify(heap, n))
  /\ log' = [log EXCEPT ![n] = Append(@, Entry("stringify", Stringify(heap, n).text))]
  /\ UNCHANGED <<heap, rect>>

(***************************************************************************)
(* SpecNode: the life of one selector, created by a facade call and then   *)
(* chained on; at most MaxCalls calls return.                              *)
(***************************************************************************)
NodeOpen == heap # << >> /\ Len(log[1]) < MaxCalls

NextNode ==
  \/ \E v \in Values : heap = << >> /\ FacadeElement(v)
  \/ \E v \in Values : heap = << >> /\ FacadeId(v)
  \/ \E v \in Values : heap = << >> /\ FacadeClass(v)
  \/ \E v \in Values : heap = << >> /\ FacadeAttr(v)
  \/ \E v \in Values : heap = << >> /\ FacadePseudoClass(v)
  \/ \E v \in Values : heap = << >> /\ FacadePseudoElement(v)
  \/ \E v \in Values : NodeOpen /\ FluentElement(1, v)
  \/ \E v \in Values : NodeOpen /\ FluentId(1, v)
  \/ \E v \in Values : NodeOpen /\ FluentClass(1, v)
  \/ \E v \in Values : NodeOpen /\ FluentAttr(1, v)
  \/ \E v \in Values : NodeOpen /\ FluentPseudoClass(1, v)
  \/ \E v \in Values : NodeOpen /\ FluentPseudoElement(1, v)
  \/ heap # << >> /\ CallStringify(1)

SpecNode == Init /\ [][NextNode]_vars

(***************************************************************************)
(* SpecTree: selectors created through the facade only, combined into      *)
(* trees and rendered; at most MaxNodes objects.                           *)
(***************************************************************************)
Nodes == 1 .. Len(heap)

TreeOpen == Len(heap) < MaxNodes

NextTree ==
  \/ \E v \in TreeValues : TreeOpen /\ FacadeElement(v)
  \/ \E v \in TreeValues : TreeOpen /\ FacadeId(v)
  \/ \E v \in TreeValues : TreeOpen /\ FacadeClass(v)
  \/ \E v \in TreeValues : TreeOpen /\ FacadeAttr(v)
  \/ \E v \in TreeValues : TreeOpen /\ FacadePseudoClass(v)
  \/ \E v \in TreeValues : TreeOpen /\ FacadePseudoElement(v)
  \/ \E a, b \in Nodes, c \in Combinators : TreeOpen /\ FacadeCombine(a, c, b)
  \/ \E n \in Nodes : CallStringify(n)

SpecTree == Init /\ [][NextTree]_vars

(***************************************************************************)
(* Spec: every call of the facade and of the objects, on at most MaxShared *)
(* objects that the caller keeps references to; at most MaxReturns calls    *)
(* return.                                                                 *)
(***************************************************************************)
RECURSIVE SumLen(_)
SumLen(lg) == IF lg = << >> THEN 0 ELSE Len(Head(lg)) + SumLen(Tail(lg))

FluentOpen == SumLen(log) < MaxReturns
SharedOpen == Len(heap) < MaxShared /\ FluentOpen

Next ==
  \/ \E v \in Values : SharedOpen /\ FacadeElement(v)
  \/ \E v \in Values : SharedOpen /\ FacadeId(v)
  \/ \E v \in Values : SharedOpen /\ FacadeClass(v)
  \/ \E v \in Values : SharedOpen /\ FacadeAttr(v)
  \/ \E v \in Values : SharedOpen /\ FacadePseudoClass(v)
  \/ \E v \in Values : SharedOpen /\ FacadePseudoElement(v)
  \/ \E a, b \in Nodes, c \in SharedCombinators : SharedOpen /\ FacadeCombine(a, c, b)
  \/ \E n \in Nodes, v \in Values : FluentOpen /\ FluentElement(n, v)
  \/ \E n \in Nodes, v \in Values : FluentOpen /\ FluentId(n, v)
  \/ \E n \in Nodes, v \in Values : FluentOpen /\ FluentClass(n, v)
  \/ \E n \in Nodes, v \in Values : FluentOpen /\ FluentAttr(n, v)
  \/ \E n \in Nodes, v \in Values : FluentOpen /\ FluentPseudoClass(n, v)
  \/ \E n \in Nodes, v \in Values : FluentOpen /\ FluentPseudoElement(n, v)
  \/ \E n, a, b \in Nodes, c \in SharedCombinators : FluentOpen /\ FluentCombine(n, a, c, b)
  \/ \E n \in Nodes : CallStringify(n)

Spec == Init /\ [][Next]_vars

(***************************************************************************)
(* SpecRender: one selector that is rendered while it is being built: the  *)
(* stringify() calls are kept in the log among the fragment calls; at most *)
(* MaxLogged calls return.                                                 *)
(***************************************************************************)
RenderOpen == heap # << >> /\ Len(log[1]) < MaxLogged

NextRender ==
  \/ \E v \in Values : heap = << >> /\ FacadeElement(v)
  \/ \E v \in Values : heap = << >> /\ FacadeId(v)
  \/ \E v \in Values : heap = << >> /\ FacadeClass(v)
  \/ \E v \in Values : heap = << >> /\ FacadeAttr(v)
  \/ \E v \in Values : heap = << >> /\ FacadePseudoClass(v)
  \/ \E v \in Values : heap = << >> /\ FacadePseudoElement(v)
  \/ \E v \in Values : RenderOpen /\ FluentElement(1, v)
  \/ \E v \in Values : RenderOpen /\ FluentId(1, v)
  \/ \E v \in Values : RenderOpen /\ FluentClass(1, v)
  \/ \E v \in Values : RenderOpen /\ FluentAttr(1, v)
  \/ \E v \in Values : RenderOpen /\ FluentPseudoClass(1, v)
  \/ \E v \in Values : RenderOpen /\ FluentPseudoElement(1, v)
  \/ RenderOpen /\ CallStringifyLogged(1)

SpecRender == Init /\ [][NextRender]_vars

(***************************************************************************)
(* function Rectangle(width, height). args are the parameters of the       *)
(* constructor call, which the arrow function getArea has in scope; op and *)
(* result are the last thing done with the object and what getArea() last  *)
(* returned.                                                               *)
(***************************************************************************)
Dims == -1 .. MaxDim

Rectangle(width, height) ==
  [width |-> width, height |-> height, args |-> <<width, height>>,
   op |-> "new", result |-> 0]

\* getArea computed from the parameters of the constructor
getAreaOfArguments(self) == self.args[1] * self.args[2]

\* () => this.width * this.height
getArea(self) == self.width * self.height

NewRectangle(width, height) ==
  /\ rect' = Rectangle(width, height)
  /\ UNCHANGED <<heap, log, ret>>

\* r.width = w
SetWidth(w) ==
  /\ rect.op # "none"
  /\ rect' = [rect EXCEPT !.width = w, !.op = "width"]
  /\ UNCHANGED <<heap, log, ret>>

\* r.height = h
SetHeight(h) ==
  /\ rect.op # "none"
  /\ rect' = [rect EXCEPT !.height = h, !.op = "height"]
  /\ UNCHANGED <<heap, log, ret>>

CallGetArea ==
  /\ rect.op # "none"
  /\ rect' = [rect EXCEPT !.result = getArea(rect), !.op = "getArea"]
  /\ UNCHANGED <<heap, log, ret>>

NextRect ==
  \/ \E w, h \in Dims : NewRectangle(w, h)
  \/ \E w \in Dims : SetWidth(w)
  \/ \E h \in Dims : SetHeight(h)
  \/ CallGetArea

SpecRect == Init /\ [][NextRect]_vars

(***************************************************************************)
(* What the claims speak of: the kinds in canonical order, which of them   *)
(* an object holds, and the calls that returned on it.                     *)
(***************************************************************************)
FragmentOps == {"element", "id", "class", "attr", "pseudoClass", "pseudoElement"}

\* the place of a method's kind in the canonical order; 0 for combine
Rank(op) ==
  CASE op = "element"       -> 1
    [] op = "id"            -> 2
    [] op = "class"         -> 3
    [] op = "attr"          -> 4
    [] op = "pseudoClass"   -> 5
    [] op = "pseudoElement" -> 6
    [] OTHER                -> 0

\* the object holds a non-empty string or a non-empty list for kind k
Populated(self, k) ==
  LET x == self[order[k]]
  IN  IF k \in {3, 5} THEN Len(x) >= 1 ELSE x \notin {Undefined, << >>}

LaterPopulated(self, op) ==
  \E k \in (Rank(op) + 1) .. Len(order) : Populated(self, k)

\* the calls of lg that are fragment calls, and the values passed to method op
Fragments(lg) == SelectSeq(lg, LAMBDA e : e.op \in FragmentOps)

RECURSIVE Vals(_, _)
Vals(lg, op) ==
  IF lg = << >> THEN << >>
  ELSE (IF Head(lg).op = op THEN <<Head(lg).val>> ELSE << >>) \o Vals(Tail(lg), op)

NonDecreasing(lg) ==
  \A i, j \in DOMAIN lg : i < j => Rank(lg[i].op) <= Rank(lg[j].op)

\* every id, attr and pseudoElement call of lg passed a non-empty string
NonEmptyValues(lg) ==
  \A i \in DOMAIN lg :
    lg[i].op \in {"id", "attr", "pseudoElement"} => lg[i].val # << >>

\* element? id? class* attr? pseudoClass* pseudoElement?
ValidOrder(lg) ==
  /\ \A i \in DOMAIN lg : lg[i].op \in FragmentOps
  /\ NonDecreasing(lg)
  /\ \A op \in {"element", "id", "attr", "pseudoElement"} : Len(Vals(lg, op)) <= 1

\* the last call was made on object n itself, not through the facade
OnObject(n) == ret'.via = "object" /\ ret'.self = n

(***************************************************************************)
(* C1                                                                      *)
(***************************************************************************)
\* C1 as stated: a call of kind K on a node on which an earlier call of a
\* later kind returned throws the order error, whatever values were passed,
\* and the kinds of the calls that returned on a node never decrease.
C1_AsStated ==
  [][ \A n \in DOMAIN heap :
        /\ ( /\ OnObject(n)
             /\ ret'.op \in FragmentOps
             /\ \E i \in DOMAIN log[n] : Rank(log[n][i].op) > Rank(ret'.op) )
           => ret'.err = OrderError
        /\ NonDecreasing(Fragments(log'[n])) ]_vars

\* C1 (amended): a call of kind K on a node that holds, for some kind later
\* than K, a non-empty string (id, attribute, pseudo-element) or a non-empty
\* list (classes, pseudo-classes) throws the order error, whichever later
\* kind it is and whatever value is passed; and when every id, attr and
\* pseudoElement call on a node passed a non-empty string, the kinds of the
\* calls that returned on it never decrease.
C1_OrderViolation ==
  [][ \A n \in DOMAIN heap :
        /\ ( /\ OnObject(n)
             /\ ret'.op \in FragmentOps
             /\ LaterPopulated(heap[n], ret'.op) )
           => ret'.err = OrderError
        /\ NonEmptyValues(log'[n]) => NonDecreasing(Fragments(log'[n])) ]_vars

\* an id call was refused because pseudo-classes were already there
C1_Witness ==
  /\ ret.op = "id"
  /\ ret.err = OrderError
  /\ heap[ret.self].myPseudoClasses # << >>
  /\ heap[ret.self].myClasses = << >>

(***************************************************************************)
(* C2                                                                      *)
(***************************************************************************)
\* C2 as stated: element, id or pseudoElement on a node on which a call of
\* the same method returned before throws the duplicate error, for every
\* value and whatever was called in between.
C2_AsStated ==
  [][ \A n \in DOMAIN heap :
        ( /\ OnObject(n)
          /\ ret'.op \in {"element", "id", "pseudoElement"}
          /\ \E i \in DOMAIN log[n] : log[n][i].op = ret'.op )
        => ret'.err = DuplicateError ]_vars

\* C2 (amended): element, id or pseudoElement on a node that holds a
\* non-empty string for that kind always throws, for every value passed: the
\* order error when the node holds a later kind (element and id only), and
\* the duplicate error otherwise.
C2_Duplicate ==
  [][ \A n \in DOMAIN heap :
        ( /\ OnObject(n)
          /\ ret'.op \in {"element", "id", "pseudoElement"}
          /\ Populated(heap[n], Rank(ret'.op)) )
        => ret'.err = IF LaterPopulated(heap[n], ret'.op)
                      THEN OrderError
                      ELSE DuplicateError ]_vars

\* a second id call was refused as a duplicate
C2_Witness ==
  /\ ret.op = "id"
  /\ ret.err = DuplicateError
  /\ Vals(log[ret.self], "id") = << <<"a">> >>

(***************************************************************************)
(* C3                                                                      *)
(***************************************************************************)
RECURSIVE Each(_, _)
\* sep + v for each v of vs, in order
Each(sep, vs) ==
  IF vs = << >> THEN << >> ELSE sep \o Head(vs) \o Each(sep, Tail(vs))

\* the part of a kind set at most once: nothing when unset
PartAsStated(pre, vs, post) ==
  IF vs = << >> THEN << >> ELSE pre \o vs[1] \o post

\* the same, and nothing when set to the empty string
Part(pre, vs, post) ==
  IF vs = << >> \/ vs[1] = << >> THEN << >> ELSE pre \o vs[1] \o post

RenderingAsStated(lg) ==
  PartAsStated(<< >>, Vals(lg, "element"), << >>)
    \o PartAsStated(<<"#">>, Vals(lg, "id"), << >>)
    \o Each(<<".">>, Vals(lg, "class"))
    \o PartAsStated(<<"[">>, Vals(lg, "attr"), <<"]">>)
    \o Each(<<":">>, Vals(lg, "pseudoClass"))
    \o PartAsStated(<<":", ":">>, Vals(lg, "pseudoElement"), << >>)

Rendering(lg) ==
  Part(<< >>, Vals(lg, "element"), << >>)
    \o Part(<<"#">>, Vals(lg, "id"), << >>)
    \o Each(<<".">>, Vals(lg, "class"))
    \o Part(<<"[">>, Vals(lg, "attr"), <<"]">>)
    \o Each(<<":">>, Vals(lg, "pseudoClass"))
    \o Part(<<":", ":">>, Vals(lg, "pseudoElement"), << >>)

\* the last call threw although it kept to the valid order
RefusedInOrder(n) ==
  /\ ret.self = n
  /\ ret.err # NoError
  /\ ValidOrder(Append(log[n], Entry(ret.op, << >>)))

\* C3 as stated: on a node whose calls follow the valid order every call
\* returns, and stringify() gives element, '#' id, '.' class ..., '[' attr
\* ']', ':' pseudo-class ..., '::' pseudo-element, the part of an unset kind
\* empty.
C3_AsStated ==
  \A n \in DOMAIN heap :
    ValidOrder(log[n]) =>
      /\ ~ RefusedInOrder(n)
      /\ (ret.op = "stringify" /\ ret.self = n)
           => (~ ret.thrown /\ ret.text = RenderingAsStated(log[n]))

\* C3 (amended): the same, where the part of an id, attr or pseudoElement
\* that was passed the empty string is empty as well (no '#', '[]' or '::').
C3_Rendering ==
  \A n \in DOMAIN heap :
    ValidOrder(log[n]) =>
      /\ ~ RefusedInOrder(n)
      /\ (ret.op = "stringify" /\ ret.self = n)
           => (~ ret.thrown /\ ret.text = Rendering(log[n]))

\* a chain with two different classes, in valid order, was rendered
C3_Witness ==
  /\ ret.op = "stringify"
  /\ ValidOrder(log[ret.self])
  /\ Vals(log[ret.self], "class") = << << >>, <<"a">> >>
  /\ Vals(log[ret.self], "id") = << <<"a">> >>
  /\ Len(Vals(log[ret.self], "pseudoElement")) = 1

(***************************************************************************)
(* C4                                                                      *)
(***************************************************************************)
\* object n is what combine(a, c, b) of the facade leaves, and its operands
IsCombination(n) ==
  LET sb == heap[n].subBuilders
  IN  Len(sb) = 3 /\ sb[1].sel # 0 /\ sb[2].sel = 0 /\ sb[3].sel # 0

LeftOf(n) == heap[n].subBuilders[1].sel
CombinatorOf(n) == heap[n].subBuilders[2].str
RightOf(n) == heap[n].subBuilders[3].sel

\* the string object n renders to
Str(n) == Stringify(heap, n).text

\* s without the whitespace at its two ends
Strip(s) ==
  LET solid == {i \in DOMAIN s : s[i] \notin Whitespace}
      first == CHOOSE i \in solid : \A j \in solid : i <= j
      last  == CHOOSE i \in solid : \A j \in solid : j <= i
  IN  IF solid = {} THEN << >> ELSE SubSeq(s, first, last)

Joined(left, c, right) == left \o <<" ">> \o c \o <<" ">> \o right

\* C4 as stated: combine(a, c, b).stringify() is a.stringify() + ' ' + c +
\* ' ' + b.stringify(), for all nodes a, b and every combinator c.
C4_AsStated ==
  (ret.op = "stringify" /\ IsCombination(ret.self)) =>
    LET n == ret.self
    IN  ret.text = Joined(Str(LeftOf(n)), CombinatorOf(n), Str(RightOf(n)))

\* C4 (amended): combine(a, c, b).stringify() is a.stringify() + ' ' + c +
\* ' ' + b.stringify() with the whitespace at its two ends removed.
C4_Combine ==
  (ret.op = "stringify" /\ IsCombination(ret.self)) =>
    LET n == ret.self
    IN  /\ ~ ret.thrown
        /\ ret.text = Strip(Joined(Str(LeftOf(n)), CombinatorOf(n), Str(RightOf(n))))

\* a combination whose left operand renders to the empty string was rendered
C4_Witness ==
  /\ ret.op = "stringify"
  /\ IsCombination(ret.self)
  /\ CombinatorOf(ret.self) = <<"+">>
  /\ Str(LeftOf(ret.self)) = << >>
  /\ Str(RightOf(ret.self)) = <<"[", " ", "]">>
  /\ ret.text = <<"+", " ", "[", " ", "]">>

(***************************************************************************)
(* C5                                                                      *)
(***************************************************************************)
\* s is not empty and has no whitespace at either end
Solid(s) == s # << >> /\ s[1] \notin Whitespace /\ s[Len(s)] \notin Whitespace

Flat(a, x, b, y, c) == Joined(Joined(Str(a), x, Str(b)), y, Str(c))

\* n is combine(combine(a, x, b), y, c): its a, x, b, y, c
NestedLeft(n) == IsCombination(n) /\ IsCombination(LeftOf(n))

FlatLeft(n) ==
  LET m == LeftOf(n)
  IN  Flat(LeftOf(m), CombinatorOf(m), RightOf(m), CombinatorOf(n), RightOf(n))

SolidLeft(n) ==
  LET m == LeftOf(n)
  IN  Solid(Str(LeftOf(m))) /\ Solid(Str(RightOf(m))) /\ Solid(Str(RightOf(n)))

\* n is combine(a, x, combine(b, y, c)): its a, x, b, y, c
NestedRight(n) == IsCombination(n) /\ IsCombination(RightOf(n))

FlatRight(n) ==
  LET m == RightOf(n)
  IN  Flat(LeftOf(n), CombinatorOf(n), LeftOf(m), CombinatorOf(m), RightOf(m))

SolidRight(n) ==
  LET m == RightOf(n)
  IN  Solid(Str(LeftOf(n))) /\ Solid(Str(LeftOf(m))) /\ Solid(Str(RightOf(m)))

\* C5 as stated: however the combination is nested, it renders to the flat
\* chain a x b y c, for all nodes a, b, c and combinators x, y.
C5_AsStated ==
  ret.op = "stringify" =>
    /\ NestedLeft(ret.self) => ret.text = FlatLeft(ret.self)
    /\ NestedRight(ret.self) => ret.text = FlatRight(ret.self)

\* C5 (amended): the same for nodes a, b, c that each render to a non-empty
\* string with no whitespace at either end.
C5_Flat ==
  ret.op = "stringify" =>
    /\ (NestedLeft(ret.self) /\ SolidLeft(ret.self))
         => (~ ret.thrown /\ ret.text = FlatLeft(ret.self))
    /\ (NestedRight(ret.self) /\ SolidRight(ret.self))
         => (~ ret.thrown /\ ret.text = FlatRight(ret.self))

\* a right-nested combination with the space as its inner combinator was
\* rendered
C5_Witness ==
  /\ ret.op = "stringify"
  /\ NestedRight(ret.self)
  /\ SolidRight(ret.self)
  /\ CombinatorOf(ret.self) = <<"+">>
  /\ CombinatorOf(RightOf(ret.self)) = <<" ">>
  /\ ret.text = <<".", " ", "+", " ", ".", " ", " ", " ", ".">>

(***************************************************************************)
(* C6                                                                      *)
(***************************************************************************)
\* C6 as stated: no node has both subBuilders and a populated fragment
\* field.
C6_AsStated ==
  \A n \in Nodes :
    heap[n].subBuilders = << >> \/ \A k \in DOMAIN order : ~ Populated(heap[n], k)

C8_AllOrNothing ==
  [][ ret'.err \in {OrderError, DuplicateError} =>
        /\ heap' = heap
        /\ \A n \in DOMAIN heap : Stringify(heap', n) = Stringify(heap, n) ]_vars

\* a second element call threw on a node that holds an element
C8_Witness ==
  /\ ret.op = "element"
  /\ ret.err = DuplicateError
  /\ heap[ret.self].myElement = <<"a">>

(***************************************************************************)
(* C9                                                                      *)
(***************************************************************************)
\* C9: a facade call returns an object that did not exist before and leaves
\* every existing object as it was; a call on an object that returns gives
\* back that object and leaves every other object as it was.
C9_Frame ==
  [][ /\ ret'.via = "facade" =>
           /\ ret'.node = Len(heap) + 1
           /\ Len(heap') = Len(heap) + 1
           /\ \A m \in DOMAIN heap : heap'[m] = heap[m]
      /\ (ret'.via = "object" /\ ret'.op # "stringify" /\ ret'.err = NoError) =>
           /\ ret'.node = ret'.self
           /\ Len(heap') = Len(heap)
           /\ \A m \in DOMAIN heap \ {ret'.self} : heap'[m] = heap[m] ]_vars

\* a call on the older of two objects returned
C9_Witness ==
  /\ Len(heap) = 2
  /\ ret.via = "object"
  /\ ret.op = "class"
  /\ ret.err = NoError
  /\ ret.self = 1
  /\ ret.node = 1

(***************************************************************************)
(* C10                                                                     *)
(***************************************************************************)
\* C10: stringify() changes no field of any object, and called again with no
\* other call in between it returns the same string.
C10_ReadOnly ==
  [][ ret'.op = "stringify" =>
        /\ heap' = heap
        /\ (ret.op = "stringify" /\ ret.self = ret'.self)
             => (ret'.text = ret.text /\ ret'.thrown = ret.thrown) ]_vars

\* a combination of two objects was rendered
C10_Witness ==
  /\ ret.op = "stringify"
  /\ Len(heap[ret.self].subBuilders) = 3
  /\ ~ ret.thrown
  /\ Len(ret.text) > 3

(***************************************************************************)
(* C11                                                                     *)
(***************************************************************************)
\* stringify() was called on object n, and the string its first call returned
Rendered(n) == \E i \in DOMAIN log[n] : log[n][i].op = "stringify"

FirstText(n) ==
  LET calls == {i \in DOMAIN log[n] : log[n][i].op = "stringify"}
  IN  log[n][CHOOSE i \in calls : \A j \in calls : i <= j].val

\* the object after method op stored val
Stored(self, op, val) ==
  IF op \in {"class", "pseudoClass"}
  THEN [self EXCEPT ![order[Rank(op)]] = Append(@, val)]
  ELSE [self EXCEPT ![order[Rank(op)]] = val]

\* C11 as stated: once stringify() has been called on a node, no later call
\* changes the fields of the node, and every later stringify() of the node
\* returns the string the first one returned.
C11_AsStated ==
  [][ \A n \in DOMAIN heap :
        Rendered(n) =>
          /\ heap'[n] = heap[n]
          /\ (ret'.op = "stringify" /\ ret'.self = n)
               => ret'.text = FirstText(n) ]_vars

\* C11 (amended): stringify() does not freeze a node. A fragment call made
\* on a node after stringify() throws the order error exactly when the node
\* holds a later kind and the duplicate error exactly when, no later kind
\* held, it is element, id or pseudoElement and the node holds that kind;
\* otherwise it returns and stores its value. A later stringify() of a node
\* whose calls follow the valid order returns the rendering of all the calls
\* that returned, those made after the first stringify() included.
C11_NotFrozen ==
  [][ \A n \in DOMAIN heap :
        (Rendered(n) /\ OnObject(n)) =>
          /\ ret'.op \in FragmentOps =>
               /\ ret'.err = OrderError <=> LaterPopulated(heap[n], ret'.op)
               /\ ret'.err = DuplicateError <=>
                    /\ ~ LaterPopulated(heap[n], ret'.op)
                    /\ ret'.op \in {"element", "id", "pseudoElement"}
                    /\ Populated(heap[n], Rank(ret'.op))
               /\ ret'.err = NoError =>
                    heap'[n] = Stored(heap[n], ret'.op, log'[n][Len(log'[n])].val)
          /\ (ret'.op = "stringify" /\ ValidOrder(Fragments(log[n])))
               => ret'.text = Rendering(Fragments(log[n])) ]_vars

\* a node was rendered, then a fragment call returned on it, then it was
\* rendered again and gave another string
C11_Witness ==
  /\ heap # << >>
  /\ \E i, j, k \in DOMAIN log[1] :
       /\ i < j /\ j < k
       /\ log[1][i].op = "stringify"
       /\ log[1][j].op \in FragmentOps
       /\ log[1][k].op = "stringify"
       /\ log[1][k].val # log[1][i].val

(***************************************************************************)
(* C12                                                                     *)
(***************************************************************************)
\* C12: new Rectangle(w, h) has width w and height h, and getArea() returns
\* the product of the width and the height the object has when it is called,
\* also after width or height was assigned again.
C12_CurrentArea ==
  /\ rect.op = "new" => (rect.width = rect.args[1] /\ rect.height = rect.args[2])
  /\ rect.op = "getArea" => rect.result = rect.width * rect.height

\* getArea() was called after both fields were assigned values other than
\* the ones the rectangle was created with
C12_Witness ==
  /\ rect.op = "getArea"
  /\ rect.width # rect.args[1]
  /\ rect.height # rect.args[2]
  /\ rect.result # rect.args[1] * rect.args[2]

(***************************************************************************)
(* C13                                                                     *)
(***************************************************************************)
\* a pseudoElement call on object n returned with a non-empty string
PseudoElementSet(n) ==
  \E i \in DOMAIN log[n] :
    log[n][i].op = "pseudoElement" /\ log[n][i].val # << >>

\* C13: pseudoElement makes no order check: on a node on which no
\* pseudo-element has been set it returns whatever the node holds, through
\* the facade as well; and once pseudoElement has returned with a non-empty
\* string, every element, id, class, attr and pseudoClass call on the node
\* throws the order error and every pseudoElement call the duplicate error,
\* so no fragment call returns on the node any more and its fields stay.
C13_Terminal ==
  [][ /\ (ret'.via = "facade" /\ ret'.op = "pseudoElement") => ret'.err = NoError
      /\ \A n \in DOMAIN heap :
           OnObject(n) =>
             /\ (ret'.op = "pseudoElement" /\ ~ PseudoElementSet(n))
                  => ret'.err = NoError
             /\ (ret'.op \in FragmentOps /\ PseudoElementSet(n))
                  => /\ ret'.err = IF ret'.op = "pseudoElement"
                                   THEN DuplicateError ELSE OrderError
                     /\ heap'[n] = heap[n]
                     /\ log'[n] = log[n] ]_vars

\* a node with a class took a pseudo-element, and the attr call that came
\* after was refused
C13_Witness ==
  /\ heap # << >>
  /\ log[1] = <<Entry("class", <<"a">>), Entry("pseudoElement", <<"a">>)>>
  /\ ret.op = "attr"
  /\ ret.err = OrderError

(***************************************************************************)
(* C16                                                                     *)
(***************************************************************************)
\* what the calls that returned on object n leave for the kind of method op:
\* for class and pseudoClass at least one call, whatever it passed; for the
\* other kinds a last call that passed a non-empty string
Holds(n, op) ==
  LET vs == Vals(log[n], op)
  IN  IF op \in {"class", "pseudoClass"}
      THEN vs # << >>
      ELSE vs # << >> /\ vs[Len(vs)] # << >>

HoldsLater(n, op) ==
  \E k \in FragmentOps : Rank(k) > Rank(op) /\ Holds(n, k)

\* C16: the checks count a kind as populated exactly when the field is a
\* non-empty string (element, id, attribute, pseudo-element) or a non-empty
\* list (classes, pseudo-classes). A call that returned with the empty string
\* for element, id, attr or pseudoElement leaves the kind unset: it does not
\* make a call of an earlier kind throw the order error, nor a second call of
\* its own kind the duplicate error; class('') and pseudoClass('') count as
\* set and make calls of earlier kinds throw the order error.
C16_Populated ==
  [][ \A n \in DOMAIN heap :
        /\ \A op \in FragmentOps : Populated(heap[n], Rank(op)) <=> Holds(n, op)
        /\ (OnObject(n) /\ ret'.op \in FragmentOps) =>
             /\ ret'.err = OrderError <=> HoldsLater(n, ret'.op)
             /\ ret'.err = DuplicateError <=>
                  /\ ~ HoldsLater(n, ret'.op)
                  /\ ret'.op \in {"element", "id", "pseudoElement"}
                  /\ Holds(n, ret'.op) ]_vars

\* pseudoElement('') did not keep id('') from returning, and the class('')
\* that followed made the next id call throw the order error, not the
\* duplicate error
C16_Witness ==
  /\ heap # << >>
  /\ log[1] = <<Entry("pseudoElement", << >>), Entry("id", << >>),
                Entry("class", << >>)>>
  /\ ret.op = "id"
  /\ ret.err = OrderError

(***************************************************************************)
(* C14                                                                     *)
(***************************************************************************)
\* object n was made by cssSelectorBuilder.combine and combine was not called
\* on it again
CombinedOnce(n) ==
  /\ log[n] # << >>
  /\ log[n][1].op = "combine"
  /\ Len(Vals(log[n], "combine")) = 1

\* C14: combine keeps references to its operands. After n = combine(a, c, b),
\* whatever calls have returned on a and b since, n.stringify() is built from
\* what a.stringify() and b.stringify() give now: their strings joined with
\* c and trimmed, or a RangeError when one of them has come to contain itself.
C14_ByReference ==
  \A n \in DOMAIN heap :
    CombinedOnce(n) =>
      LET of    == log[n][1].val
          left  == Stringify(heap, of.left)
          right == Stringify(heap, of.right)
      IN  Stringify(heap, n) =
            IF left.thrown \/ right.thrown THEN RangeError
            ELSE Text(Strip(Joined(left.text, of.combinator, right.text)))

\* a class was added to the operand of a combination after combine, and the
\* combination renders with it
C14_Witness ==
  /\ Len(heap) = 2
  /\ Len(log[1]) = 2
  /\ log[1][1].op = "element"
  /\ log[1][2].op = "class"
  /\ CombinedOnce(2)
  /\ log[2][1].val = Operands(1, <<"+">>, 1)
  /\ ret.via = "object"
  /\ ret.op = "class"
  /\ ret.self = 1
  /\ Str(2) = <<"a", ".", "a", " ", "+", " ", "a", ".", "a">>

(***************************************************************************)
(* C15                                                                     *)
(***************************************************************************)
\* C15: the string stringify() returns on a combinator node neither begins
\* nor ends with a space; when the left operand of a combination renders as
\* the empty string the result begins with what is left of the combinator
\* and the right operand, and when the right operand does it ends with what
\* is left of the left operand and the combinator.
C15_Trimmed ==
  \A n \in DOMAIN heap :
    (ret.op = "stringify" /\ ret.self = n /\ heap[n].subBuilders # << >>
       /\ ~ ret.thrown) =>
      /\ ret.text = << >>
           \/ (ret.text[1] # " " /\ ret.text[Len(ret.text)] # " ")
      /\ (IsCombination(n) /\ Str(LeftOf(n)) = << >>)
           => ret.text = Strip(CombinatorOf(n) \o <<" ">> \o Str(RightOf(n)))
      /\ (IsCombination(n) /\ Str(RightOf(n)) = << >>)
           => ret.text = Strip(Str(LeftOf(n)) \o <<" ">> \o CombinatorOf(n))

\* a combination whose left operand renders as the empty string was rendered
C15_Witness ==
  /\ ret.op = "stringify"
  /\ IsCombination(ret.self)
  /\ Str(LeftOf(ret.self)) = << >>
  /\ CombinatorOf(ret.self) = <<"+">>
  /\ ret.text = <<"+", " ", ".">>

====
